---- MODULE Spec2Model ----
(***************************************************************************)
(* FOIS loco tracker.                                                      *)
(*   - the reconciliation engine: POST /api/track-loco (route.ts) over the *)
(*     LocoData collection (models/LocoData.ts);                           *)
(*   - the client tracking session: Home (app/page.tsx).                   *)
(* Coordinates are fixed-point integers, one unit = 0.00005 degree, so the *)
(* tolerance 0.0001 of the route is 2 units.                               *)
(***************************************************************************)
EXTENDS Integers, Sequences, FiniteSets, TLC

VARIABLES
    db,          \* engine: the LocoData collection, a set of documents
    now,         \* engine: the store's clock, the createdAt of the last insert
    calls,       \* engine: the POST calls in flight, one record per slot
    prev,        \* engine: what the call that returned last leaves (<<>> if none)
    sofar,       \* engine: what has held of the whole run so far
    locoId,      \* session: useState('37875')
    currentData, \* session: useState<TrackingData | null>, <<>> is null
    historyData, \* session: useState<history>([])
    isTracking,  \* session: useState(false)
    isLoading,   \* session: useState(false)
    error,       \* session: useState<string | null>, <<>> is null
    intervalRef, \* session: useRef, the handle last returned by setInterval
    timers,      \* session: the intervals that are alive
    polls,       \* session: the fetchData calls in flight, one record per slot
    startId,     \* session: the id the running session was started with
    lastUser     \* session: the last press of the button, "start" or "stop"

engineVars == <<db, now, calls, prev, sofar>>
sessionVars == <<locoId, currentData, historyData, isTracking, isLoading,
                 error, intervalRef, timers, polls, startId, lastUser>>
vars == <<db, now, calls, prev, sofar, locoId, currentData, historyData, isTracking,
          isLoading, error, intervalRef, timers, polls, startId, lastUser>>

-----------------------------------------------------------------------------
(* Bounds *)
MaxRecords == 3
MaxPolls == 2

-----------------------------------------------------------------------------
(* JavaScript numbers: the integers (fixed point) and NaN *)
NaN == -1

COORDINATE_TOLERANCE == 2

Sub(a, b) == IF a = NaN \/ b = NaN THEN NaN ELSE a - b

MathAbs(a) == IF a = NaN THEN NaN ELSE IF a < 0 THEN 0 - a ELSE a

Gt(a, b) == a # NaN /\ b # NaN /\ a > b

\* parseFloat over the coordinate strings the telemetry source may send
parseFloat(s) ==
    CASE s = "28.61000" -> 0
      [] s = "28.61010" -> 2
      [] s = "28.61015" -> 3
      [] s = "77.20000" -> 0
      [] s = "77.20015" -> 3
      [] OTHER -> NaN

\* parsePopupMsg: the station label of the annotation, 'N/A' when not found
parsePopupMsg(html) ==
    CASE html = "Station: <b>NDLS</b>" -> [station |-> "NDLS"]
      [] OTHER -> [station |-> "N/A"]

-----------------------------------------------------------------------------
(* The telemetry source (FOIS) and what the route reads from its response *)

Row(lttd, lgtd, msg) == [Lttd |-> lttd, Lgtd |-> lgtd, PopUpMsg |-> msg]

\* "undefined" stands for a field the payload does not carry
Rows ==
    { Row("28.61000", "77.20000", "Station: <b>NDLS</b>"),
      Row("28.61010", "77.20000", "Station: <b>NDLS</b>"),
      Row("28.61015", "77.20000", "Station: <b>NDLS</b>"),
      Row("28.61000", "77.20015", "Station: <b>NDLS</b>"),
      Row("abc", "undefined", "no labels"),
      Row("28.61000", "77.20000", "undefined") }

FoisResponses ==
    { [ok |-> FALSE, RowCont |-> "", hasDtls |-> FALSE, LocoDtls |-> <<>>],
      [ok |-> TRUE, RowCont |-> "0", hasDtls |-> FALSE, LocoDtls |-> <<>>],
      [ok |-> TRUE, RowCont |-> "1", hasDtls |-> TRUE, LocoDtls |-> <<>>] }
    \cup { [ok |-> TRUE, RowCont |-> "1", hasDtls |-> TRUE, LocoDtls |-> <<r>>] : r \in Rows }

NoFois == [ok |-> FALSE, RowCont |-> "", hasDtls |-> FALSE, LocoDtls |-> <<>>]

LocoIds == {"37875", "12345"}

RequestIds == LocoIds \cup {""}

NoData == [lat |-> NaN, lng |-> NaN, station |-> ""]

\* route.ts:52-56, the TrackingData built from the first detail row
ParseCurrent(row) ==
    [lat |-> parseFloat(row.Lttd),
     lng |-> parseFloat(row.Lgtd),
     station |-> parsePopupMsg(row.PopUpMsg).station]

-----------------------------------------------------------------------------
(* The LocoData collection *)

RECURSIVE SortAsc(_)
SortAsc(S) ==
    IF S = {} THEN <<>>
    ELSE LET first == CHOOSE d \in S : \A e \in S : d.createdAt <= e.createdAt
         IN <<first>> \o SortAsc(S \ {first})

\* LocoData.find({ locoId }).sort({ createdAt: 'asc' })
Find(id) == SortAsc({d \in db : d.locoId = id})

\* the schema: lat and lng are Numbers (NaN does not cast), all fields required
Validates(data) == data.lat # NaN /\ data.lng # NaN /\ data.station # ""

Doc(id, data, t) ==
    [locoId |-> id, lat |-> data.lat, lng |-> data.lng,
     station |-> data.station, createdAt |-> t]

-----------------------------------------------------------------------------
(* POST: the pure steps *)

\* the movement test against the oldest record instead of the last one
HasMovedFromFirst(historyRecords, cur) ==
    \/ Len(historyRecords) = 0
    \/ Gt(MathAbs(Sub(historyRecords[1].lat, cur.lat)), COORDINATE_TOLERANCE)
    \/ Gt(MathAbs(Sub(historyRecords[1].lng, cur.lng)), COORDINATE_TOLERANCE)

\* the movement test with >= in place of >
HasMovedAtTolerance(historyRecords, cur) ==
    LET n == Len(historyRecords)
    IN \/ n = 0
       \/ ~Gt(COORDINATE_TOLERANCE, MathAbs(Sub(historyRecords[n].lat, cur.lat)))
       \/ ~Gt(COORDINATE_TOLERANCE, MathAbs(Sub(historyRecords[n].lng, cur.lng)))

\* route.ts:68-74
HasMoved(historyRecords, cur) ==
    LET n == Len(historyRecords)
    IN \/ n = 0
       \/ Gt(MathAbs(Sub(historyRecords[n].lat, cur.lat)), COORDINATE_TOLERANCE)
       \/ Gt(MathAbs(Sub(historyRecords[n].lng, cur.lng)), COORDINATE_TOLERANCE)

\* route.ts:95-113
HistoryPoint(rec) ==
    [lat |-> rec.lat, lng |-> rec.lng,
     station |-> IF rec.station = "" THEN "Historical Position" ELSE rec.station]

CurrentPoint(cur) == [lat |-> cur.lat, lng |-> cur.lng, station |-> cur.station]

\* the history without the point of a record just saved
FinalHistoryNoPush(historyRecords, cur, hasMoved, newRecordSaved) ==
    LET mapped == [i \in 1..Len(historyRecords) |-> HistoryPoint(historyRecords[i])]
    IN IF Len(mapped) = 0 THEN Append(mapped, CurrentPoint(cur)) ELSE mapped

\* the history with the current point appended whether or not it was saved
FinalHistoryAlwaysPush(historyRecords, cur, hasMoved, newRecordSaved) ==
    LET mapped == [i \in 1..Len(historyRecords) |-> HistoryPoint(historyRecords[i])]
    IN Append(mapped, CurrentPoint(cur))

\* route.ts:95-135
FinalHistory(historyRecords, cur, hasMoved, newRecordSaved) ==
    LET mapped == [i \in 1..Len(historyRecords) |-> HistoryPoint(historyRecords[i])]
    IN IF hasMoved /\ newRecordSaved
       THEN Append(mapped, CurrentPoint(cur))
       ELSE IF ~hasMoved /\ Len(mapped) = 0
            THEN Append(mapped, CurrentPoint(cur))
            ELSE mapped

\* TrackingMap.tsx:71, the === of two numbers: NaN equals nothing
StrictEq(a, b) == a # NaN /\ b # NaN /\ a = b

\* TrackingMap.tsx:67-75: the history point the map takes for the current
\* position (it draws no history marker for it when it is the last one)
IsCurrentPosition(point, cur) == StrictEq(point.lat, cur.lat) /\ StrictEq(point.lng, cur.lng)

-----------------------------------------------------------------------------
(* POST: one call per slot, one action per await of the handler *)

Calls == {1, 2}

\* the slots of SpecEngine: one caller, whose calls follow one another
Serial == {1}

\* undisturbed: no other call began and nothing was evicted since this call began
\* repeats: the call got the telemetry of the call that returned just before
\*          it began, "clean" when that call had no store failure
\* fetched: the call sent its request to the telemetry source
\* dbOps: the store operations the call attempted (connect and find, create)
IdleCall ==
    [pc |-> "idle", locoId |-> "", fois |-> NoFois, currentData |-> NoData,
     historyRecords |-> <<>>, hasMoved |-> FALSE, newRecordSaved |-> FALSE,
     status |-> 0, current |-> NoData, history |-> <<>>,
     undisturbed |-> FALSE, repeats |-> "no", fetched |-> FALSE, dbOps |-> {}]

InFlight(c) == calls[c].pc \in {"fetch", "find", "create"}

\* what a returned call leaves for the call that follows it
Summary(call) ==
    IF call.undisturbed
    THEN <<[locoId |-> call.locoId, fois |-> call.fois,
            clean |-> call.status = 200 /\ (call.hasMoved => call.newRecordSaved)]>>
    ELSE <<>>

Repeats(call, f) ==
    IF call.undisturbed /\ prev # <<>> /\ prev[1].locoId = call.locoId /\ prev[1].fois = f
    THEN IF prev[1].clean THEN "clean" ELSE "failed"
    ELSE "no"

\* NextResponse.json({ error }, { status }): the call returns without a snapshot
ErrorResponse(call, code) ==
    [call EXCEPT !.pc = "done", !.status = code, !.current = NoData, !.history = <<>>]

\* route.ts:94-145, NextResponse.json({ current, history })
SnapshotResponse(call) ==
    [call EXCEPT !.pc = "done", !.status = 200, !.current = call.currentData,
                 !.history = FinalHistory(call.historyRecords, call.currentData,
                                          call.hasMoved, call.newRecordSaved)]

\* a call begins in slot c: the other calls are no longer undisturbed
Overlap(c) ==
    [d \in Calls |->
        IF d # c /\ calls[d].pc # "idle" THEN [calls[d] EXCEPT !.undisturbed = FALSE]
        ELSE calls[d]]

\* serial: no call began while another was in flight
\* pristine: every call so far succeeded, with no store failure and no eviction
Sofar(serial, pristine) ==
    [serial |-> sofar.serial /\ serial, pristine |-> sofar.pristine /\ pristine]

\* the route without its check of the id
RequestUnchecked(c, id) ==
    /\ ~InFlight(c)
    /\ LET quiet == \A d \in Calls : d # c => ~InFlight(d)
           call == [IdleCall EXCEPT !.locoId = id, !.undisturbed = quiet]
       IN /\ calls' = [Overlap(c) EXCEPT ![c] = [call EXCEPT !.pc = "fetch"]]
          /\ prev' = IF quiet THEN prev ELSE <<>>
          /\ sofar' = Sofar(quiet, TRUE)
    /\ UNCHANGED <<db, now>>
    /\ UNCHANGED sessionVars

\* route.ts:31-36
Request(c, id) ==
    /\ ~InFlight(c)
    /\ LET quiet == \A d \in Calls : d # c => ~InFlight(d)
           call == [IdleCall EXCEPT !.locoId = id, !.undisturbed = quiet]
       IN IF id = ""
          THEN /\ calls' = [Overlap(c) EXCEPT ![c] = ErrorResponse(call, 400)]
               /\ prev' = Summary(ErrorResponse(call, 400))
               /\ sofar' = Sofar(quiet, FALSE)
          ELSE /\ calls' = [Overlap(c) EXCEPT ![c] = [call EXCEPT !.pc = "fetch"]]
               /\ prev' = IF quiet THEN prev ELSE <<>>
               /\ sofar' = Sofar(quiet, TRUE)
    /\ UNCHANGED <<db, now>>
    /\ UNCHANGED sessionVars

\* route.ts:41-56
FetchOutcome(call, f) ==
    LET got == [call EXCEPT !.fois = f, !.fetched = TRUE]
    IN IF ~f.ok THEN ErrorResponse(got, 500)
       ELSE IF f.RowCont = "0" \/ ~f.hasDtls THEN ErrorResponse(got, 404)
       ELSE IF Len(f.LocoDtls) = 0 THEN ErrorResponse(got, 500)
       ELSE IF f.LocoDtls[1].PopUpMsg = "undefined" THEN ErrorResponse(got, 500)
       ELSE [got EXCEPT !.pc = "find", !.currentData = ParseCurrent(f.LocoDtls[1])]

FetchFois(c, f) ==
    /\ calls[c].pc = "fetch"
    /\ LET call == FetchOutcome([calls[c] EXCEPT !.repeats = Repeats(calls[c], f)], f)
       IN /\ calls' = [calls EXCEPT ![c] = call]
          /\ prev' = IF call.pc = "done" THEN Summary(call) ELSE <<>>
          /\ sofar' = Sofar(TRUE, call.pc # "done")
    /\ UNCHANGED <<db, now>>
    /\ UNCHANGED sessionVars

\* route.ts:61-76 and, when the loco has not moved, 94-145
FindOutcome(call, historyRecords) ==
    LET moved == HasMoved(historyRecords, call.currentData)
        read == [call EXCEPT !.historyRecords = historyRecords, !.hasMoved = moved]
    IN IF moved THEN [read EXCEPT !.pc = "create"] ELSE SnapshotResponse(read)

DbFind(c) ==
    /\ calls[c].pc = "find"
    /\ LET call == FindOutcome([calls[c] EXCEPT !.dbOps = @ \cup {"find"}],
                                Find(calls[c].locoId))
       IN /\ calls' = [calls EXCEPT ![c] = call]
          /\ prev' = IF call.pc = "done" THEN Summary(call) ELSE prev
    /\ UNCHANGED <<db, now, sofar>>
    /\ UNCHANGED sessionVars

\* route.ts:61-62 throw (store unavailable), caught at 147-151
DbFindFails(c) ==
    /\ calls[c].pc = "find"
    /\ LET call == ErrorResponse([calls[c] EXCEPT !.dbOps = @ \cup {"find"}], 500)
       IN /\ calls' = [calls EXCEPT ![c] = call]
          /\ prev' = Summary(call)
    /\ sofar' = Sofar(TRUE, FALSE)
    /\ UNCHANGED <<db, now>>
    /\ UNCHANGED sessionVars

\* route.ts:82-87, then 94-145
CreateSaved(call) ==
    SnapshotResponse([call EXCEPT !.newRecordSaved = TRUE, !.dbOps = @ \cup {"create"}])

DbCreate(c) ==
    /\ calls[c].pc = "create"
    /\ Validates(calls[c].currentData)
    /\ now < MaxRecords
    /\ now' = now + 1
    /\ db' = db \cup {Doc(calls[c].locoId, calls[c].currentData, now + 1)}
    /\ calls' = [calls EXCEPT ![c] = CreateSaved(calls[c])]
    /\ prev' = Summary(CreateSaved(calls[c]))
    /\ UNCHANGED sofar
    /\ UNCHANGED sessionVars

\* the save's exception left to the outer catch of the handler
CreateFailedThrows(call) == ErrorResponse(call, 500)

\* route.ts:88-91, then 94-145: the save throws and the handler carries on
CreateFailed(call) ==
    SnapshotResponse([call EXCEPT !.newRecordSaved = FALSE, !.dbOps = @ \cup {"create"}])

DbCreateFails(c) ==
    /\ calls[c].pc = "create"
    /\ calls' = [calls EXCEPT ![c] = CreateFailed(calls[c])]
    /\ prev' = Summary(CreateFailed(calls[c]))
    /\ sofar' = Sofar(TRUE, FALSE)
    /\ UNCHANGED <<db, now>>
    /\ UNCHANGED sessionVars

\* models/LocoData.ts (part_000:180), the TTL index: the documents created up to t expire
Evict(t) ==
    /\ \E d \in db : d.createdAt = t
    /\ db' = {d \in db : d.createdAt > t}
    /\ calls' = [d \in Calls |-> IF calls[d].pc = "idle" THEN calls[d]
                                 ELSE [calls[d] EXCEPT !.undisturbed = FALSE,
                                                       !.repeats = "no"]]
    /\ prev' = <<>>
    /\ sofar' = Sofar(TRUE, FALSE)
    /\ UNCHANGED now
    /\ UNCHANGED sessionVars

-----------------------------------------------------------------------------
(* The tracking session: Home (page.tsx) *)

PollSlots == 1..MaxPolls

Handles == {1, 2}

\* what the user may type into the input; " " is a blank entry
InputIds == {"37875", "12345", " "}

\* String.prototype.trim over the input values
Trim(id) == IF id = " " THEN "" ELSE id

Point(x, y) == [lat |-> x, lng |-> y, station |-> "NDLS"]

\* what fetch('/api/track-loco') may deliver for a request with this locoId:
\* a snapshot, an error body with its status, or a rejected fetch
Json(ok, err, cur, hist) ==
    [rejected |-> FALSE, ok |-> ok, error |-> err, current |-> cur, history |-> hist]

Rejected ==
    [rejected |-> TRUE, ok |-> FALSE, error |-> "Failed to fetch",
     current |-> NoData, history |-> <<>>]

Responses(id) ==
    IF id = ""
    THEN { Json(FALSE, "Loco ID is required", NoData, <<>>), Rejected }
    ELSE { Json(TRUE, "", Point(0, 0), <<Point(0, 0)>>),
           Json(TRUE, "", Point(0, 3), <<Point(0, 0), Point(0, 3)>>),
           Json(FALSE, "Loco not found or no data available.", NoData, <<>>),
           Json(FALSE, "", NoData, <<>>),
           Rejected }

\* page.tsx:35-39 and 47-48: the message of the error fetchData catches, "" if none
ErrorMessage(resp) ==
    IF resp.rejected THEN resp.error
    ELSE IF ~resp.ok \/ resp.error # ""
         THEN IF resp.error # "" THEN resp.error ELSE "Failed to fetch data"
         ELSE ""

\* stale: the user stopped the session after this poll was issued
NoPoll == [active |-> FALSE, id |-> "", isTracking |-> FALSE, stale |-> FALSE]

FreeSlot == CHOOSE s \in PollSlots : ~polls[s].active /\ \A r \in PollSlots : r < s => polls[r].active

HasFreeSlot == \E s \in PollSlots : ~polls[s].active

\* page.tsx:30-34: fetchData(id) of a render whose isTracking is `tracking` sends its request
Issue(id, tracking) ==
    [polls EXCEPT ![FreeSlot] = [active |-> TRUE, id |-> Trim(id),
                                 isTracking |-> tracking, stale |-> FALSE]]

\* clearInterval(intervalRef.current)
Cleared == {t \in timers : t.handle # intervalRef}

NewHandle == CHOOSE h \in Handles : h # intervalRef /\ \A t \in timers : t.handle # h

\* the polling effect without its cleanup: the earlier interval is left alive
EffectTimersNoCleanup(tracking, id) ==
    IF tracking = isTracking /\ id = locoId THEN timers
    ELSE IF tracking
         THEN timers \cup {[handle |-> NewHandle, id |-> id, isTracking |-> tracking]}
         ELSE timers

\* page.tsx:57-73: the polling effect after a render with these isTracking and
\* locoId; it runs (cleanup first) only when one of them changed
EffectTimers(tracking, id) ==
    IF tracking = isTracking /\ id = locoId THEN timers
    ELSE IF tracking
         THEN Cleared \cup {[handle |-> NewHandle, id |-> id, isTracking |-> tracking]}
         ELSE Cleared

EffectRef(tracking, id) ==
    IF tracking = isTracking /\ id = locoId THEN intervalRef
    ELSE IF tracking THEN NewHandle ELSE intervalRef

\* page.tsx:75-80: the button while tracking is STOP
Stop ==
    /\ ~isLoading
    /\ isTracking
    /\ isTracking' = FALSE
    /\ timers' = EffectTimers(FALSE, locoId)
    /\ intervalRef' = EffectRef(FALSE, locoId)
    /\ polls' = [s \in PollSlots |->
                    IF polls[s].active THEN [polls[s] EXCEPT !.stale = TRUE] ELSE polls[s]]
    /\ lastUser' = "stop"
    /\ UNCHANGED <<locoId, currentData, historyData, isLoading, error, startId>>
    /\ UNCHANGED engineVars

\* page.tsx:80-85 and fetchData 23-34: the button while not tracking is TRACK
Start ==
    /\ ~isLoading
    /\ ~isTracking
    /\ HasFreeSlot
    /\ currentData' = <<>>
    /\ historyData' = <<>>
    /\ isLoading' = TRUE
    /\ error' = <<>>
    /\ polls' = Issue(locoId, isTracking)
    /\ startId' = Trim(locoId)
    /\ lastUser' = "start"
    /\ UNCHANGED <<locoId, isTracking, intervalRef, timers>>
    /\ UNCHANGED engineVars

\* page.tsx:97-107: onChange of the input, enabled unless isLoading
ChangeLocoId(v) ==
    /\ ~isLoading
    /\ v # locoId
    /\ locoId' = v
    /\ timers' = EffectTimers(isTracking, v)
    /\ intervalRef' = EffectRef(isTracking, v)
    /\ UNCHANGED <<currentData, historyData, isTracking, isLoading, error, polls, startId, lastUser>>
    /\ UNCHANGED engineVars

\* page.tsx:60 and fetchData 23-34: a live interval fires
Tick ==
    /\ HasFreeSlot
    /\ \E t \in timers :
        /\ isLoading' = IF ~t.isTracking THEN TRUE ELSE isLoading
        /\ error' = <<>>
        /\ polls' = Issue(t.id, t.isTracking)
    /\ UNCHANGED <<locoId, currentData, historyData, isTracking, intervalRef, timers, startId, lastUser>>
    /\ UNCHANGED engineVars

\* a completion that turns tracking on without storing the snapshot
PollSucceedsKeepsData(s, resp) ==
    /\ polls[s].active
    /\ resp \in Responses(polls[s].id)
    /\ ErrorMessage(resp) = ""
    /\ isTracking' = IF ~polls[s].isTracking THEN TRUE ELSE isTracking
    /\ timers' = EffectTimers(isTracking', locoId)
    /\ intervalRef' = EffectRef(isTracking', locoId)
    /\ isLoading' = FALSE
    /\ polls' = [polls EXCEPT ![s] = NoPoll]
    /\ UNCHANGED <<locoId, currentData, historyData, error, startId, lastUser>>
    /\ UNCHANGED engineVars

\* page.tsx:35-46 and 51-53: the poll in slot s gets a snapshot
PollSucceeds(s, resp) ==
    /\ polls[s].active
    /\ resp \in Responses(polls[s].id)
    /\ ErrorMessage(resp) = ""
    /\ currentData' = <<resp.current>>
    /\ historyData' = resp.history
    /\ isTracking' = IF ~polls[s].isTracking THEN TRUE ELSE isTracking
    /\ timers' = EffectTimers(isTracking', locoId)
    /\ intervalRef' = EffectRef(isTracking', locoId)
    /\ isLoading' = FALSE
    /\ polls' = [polls EXCEPT ![s] = NoPoll]
    /\ UNCHANGED <<locoId, error, startId, lastUser>>
    /\ UNCHANGED engineVars

\* page.tsx:35-39 and 47-53: the poll in slot s fails
PollFails(s, resp) ==
    /\ polls[s].active
    /\ resp \in Responses(polls[s].id)
    /\ ErrorMessage(resp) # ""
    /\ error' = <<ErrorMessage(resp)>>
    /\ isTracking' = FALSE
    /\ timers' = EffectTimers(FALSE, locoId)
    /\ intervalRef' = EffectRef(FALSE, locoId)
    /\ isLoading' = FALSE
    /\ polls' = [polls EXCEPT ![s] = NoPoll]
    /\ UNCHANGED <<locoId, currentData, historyData, startId, lastUser>>
    /\ UNCHANGED engineVars

InitSession ==
    /\ locoId = "37875"
    /\ currentData = <<>>
    /\ historyData = <<>>
    /\ isTracking = FALSE
    /\ isLoading = FALSE
    /\ error = <<>>
    /\ intervalRef = 0
    /\ timers = {}
    /\ polls = [s \in PollSlots |-> NoPoll]
    /\ startId = ""
    /\ lastUser = ""

InitEngine ==
    /\ db = {}
    /\ now = 0
    /\ calls = [c \in Calls |-> IdleCall]
    /\ prev = <<>>
    /\ sofar = [serial |-> TRUE, pristine |-> TRUE]

Init == InitEngine /\ InitSession

NextEngine ==
    \/ \E c \in Serial, id \in RequestIds : Request(c, id)
    \/ \E c \in Serial, f \in FoisResponses : FetchFois(c, f)
    \/ \E c \in Serial : DbFind(c)
    \/ \E c \in Serial : DbFindFails(c)
    \/ \E c \in Serial : DbCreate(c)
    \/ \E c \in Serial : DbCreateFails(c)
    \/ \E t \in 1..MaxRecords : Evict(t)

SpecEngine == Init /\ [][NextEngine]_vars

\* two callers poll the same loco at once; the telemetry is well-formed
RaceResponses ==
    {f \in FoisResponses : /\ Len(f.LocoDtls) = 1
                           /\ f.LocoDtls[1].PopUpMsg # "undefined"
                           /\ parseFloat(f.LocoDtls[1].Lttd) # NaN
                           /\ parseFloat(f.LocoDtls[1].Lgtd) # NaN}

NextRace ==
    \/ \E c \in Calls : Request(c, "37875")
    \/ \E c \in Calls, f \in RaceResponses : FetchFois(c, f)
    \/ \E c \in Calls : DbFind(c)
    \/ \E c \in Calls : DbFindFails(c)
    \/ \E c \in Calls : DbCreate(c)
    \/ \E c \in Calls : DbCreateFails(c)
    \/ \E t \in 1..MaxRecords : Evict(t)

SpecRace == Init /\ [][NextRace]_vars

AllResponses == UNION {Responses(Trim(id)) : id \in InputIds}

NextSession ==
    \/ Stop
    \/ Start
    \/ \E v \in InputIds : ChangeLocoId(v)
    \/ Tick
    \/ \E s \in PollSlots, resp \in AllResponses : PollSucceeds(s, resp)
    \/ \E s \in PollSlots, resp \in AllResponses : PollFails(s, resp)

SpecSession == Init /\ [][NextSession]_vars

-----------------------------------------------------------------------------
(* Properties of the reconciliation engine, checked under SpecEngine *)

\* the calls that returned a snapshot
Returned == {c \in Calls : calls[c].pc = "done" /\ calls[c].status = 200}

\* the calls whose movement-triggered insert failed
InsertFailed == {c \in Calls : calls[c].pc = "done" /\ calls[c].hasMoved
                                 /\ ~calls[c].newRecordSaved}

\* the stored records a call read, as points of a returned history
Trail(recs) ==
    [i \in 1..Len(recs) |-> [lat |-> recs[i].lat, lng |-> recs[i].lng,
                             station |-> recs[i].station]]

Contains(history, point) == \E i \in 1..Len(history) : history[i] = point

\* C1: a call that returns a snapshot and read an empty stored history returns
\* a history of length >= 1 that contains the current point.
C1_SnapshotCompleteness ==
    \A c \in Returned :
        calls[c].historyRecords = <<>> =>
            /\ Len(calls[c].history) >= 1
            /\ Contains(calls[c].history, calls[c].current)

\* C2: when the loco has moved and the insert fails, the returned history is
\* the records read before the insert followed by the current point.
C2_FailedInsertHistory ==
    \A c \in InsertFailed :
        calls[c].history = Append(Trail(calls[c].historyRecords), calls[c].current)

\* C3: a failed insert is not fatal: the call returns 200 with the freshly
\* fetched point as current, and the stored history is as the call read it.
C3_InsertFailureNonFatal ==
    \A c \in InsertFailed :
        /\ calls[c].status = 200
        /\ calls[c].current = ParseCurrent(calls[c].fois.LocoDtls[1])
        /\ calls[c].undisturbed => Find(calls[c].locoId) = calls[c].historyRecords

C3_Witness ==
    \E c \in InsertFailed :
        /\ calls[c].undisturbed
        /\ Len(calls[c].historyRecords) >= 1
        /\ calls[c].current.lat # NaN

\* the call stored nothing: the stored history is no longer than the one it read
NoGrowth(call) ==
    /\ ~call.newRecordSaved
    /\ call.status = 200 => Len(Find(call.locoId)) <= Len(call.historyRecords)

\* C6 as stated: the second of two consecutive calls with identical telemetry
\* (no eviction, no overlap) does not grow the stored history.
C6_Idempotence ==
    \A c \in Calls :
        (calls[c].pc = "done" /\ calls[c].undisturbed /\ calls[c].repeats # "no")
            => NoGrowth(calls[c])

\* C6 amended: the same, when the first call returned a snapshot and suffered
\* no store failure.
C6_IdempotenceAfterCleanCall ==
    \A c \in Calls :
        (calls[c].pc = "done" /\ calls[c].undisturbed /\ calls[c].repeats = "clean")
            => NoGrowth(calls[c])

C6_Witness ==
    \E c \in Returned :
        /\ calls[c].undisturbed
        /\ calls[c].repeats = "clean"
        /\ Len(calls[c].historyRecords) >= 2
        /\ calls[c].current.lat # NaN

\* the telemetry row of a call lacks a numeric coordinate
Malformed(call) ==
    /\ call.fois.ok
    /\ Len(call.fois.LocoDtls) >= 1
    /\ \/ parseFloat(call.fois.LocoDtls[1].Lttd) = NaN
       \/ parseFloat(call.fois.LocoDtls[1].Lgtd) = NaN

\* C7: a payload whose coordinates are absent or non-numeric fails the poll:
\* no snapshot is returned and no record is stored.
C7_MalformedTelemetryFails ==
    \A c \in Calls :
        (calls[c].pc = "done" /\ Malformed(calls[c]))
            => calls[c].status # 200 /\ ~calls[c].newRecordSaved

\* C9: the returned history is the stored records, oldest first, followed by
\* the current point iff it was newly inserted or the stored history was empty.
C9_HistoryConstruction ==
    \A c \in Returned :
        calls[c].history =
            IF calls[c].newRecordSaved \/ calls[c].historyRecords = <<>>
            THEN Append(Trail(calls[c].historyRecords), calls[c].current)
            ELSE Trail(calls[c].historyRecords)

\* the positions of a history, or of stored records, in order
Positions(seq) == [i \in 1..Len(seq) |-> <<seq[i].lat, seq[i].lng>>]

\* two coordinates further apart than the tolerance
Apart(a, b) == a - b > COORDINATE_TOLERANCE \/ b - a > COORDINATE_TOLERANCE

Numeric(data) == data.lat # NaN /\ data.lng # NaN

\* the last of the records a call read
LastRecord(call) == call.historyRecords[Len(call.historyRecords)]

\* the current position of a call is beyond the tolerance of the last record it read
Beyond(call) ==
    \/ Apart(LastRecord(call).lat, call.currentData.lat)
    \/ Apart(LastRecord(call).lng, call.currentData.lng)

\* C12: in a run of serialized successful polls from an empty store, with no
\* store failure and no eviction, each returned history has the positions of
\* the store's records after the poll, in the same order; a first poll and a
\* poll beyond the tolerance grow store and history by one, the new point last;
\* a poll at unchanged coordinates grows neither.
C12_TrailConsistency ==
    \A c \in Returned :
        (sofar.serial /\ sofar.pristine) =>
            LET call == calls[c]
                read == call.historyRecords
                stored == Find(call.locoId)
                grown == /\ Len(stored) = Len(read) + 1
                         /\ Len(call.history) = Len(read) + 1
                         /\ stored[Len(stored)].lat = call.current.lat
                         /\ stored[Len(stored)].lng = call.current.lng
                same == Len(stored) = Len(read) /\ Len(call.history) = Len(read)
            IN /\ Positions(call.history) = Positions(stored)
               /\ read = <<>> => grown
               /\ (read # <<>> /\ Numeric(call.current) /\ Beyond(call)) => grown
               /\ (read # <<>> /\ IsCurrentPosition(LastRecord(call), call.current)) => same

\* a third point returned and stored, in a run without failure or eviction
C12_Witness ==
    \E c \in Returned :
        /\ sofar.serial /\ sofar.pristine
        /\ Len(calls[c].historyRecords) = 2
        /\ Beyond(calls[c])
        /\ Len(calls[c].history) = 3
        /\ Len(Find(calls[c].locoId)) = 3

\* the calls that returned a snapshot without movement from a stored record
Unmoved == {c \in Returned : ~calls[c].hasMoved /\ calls[c].historyRecords # <<>>}

\* C13 as stated: when the loco has not moved and the stored history is not
\* empty, the last element of the returned history is not the current position.
C13_NoDuplicate ==
    \A c \in Unmoved :
        ~IsCurrentPosition(calls[c].history[Len(calls[c].history)], calls[c].current)

\* C13 amended: when the loco has not moved and the stored history is not
\* empty, the current point is not appended: the returned history is the
\* stored trail, whose last element is within the tolerance of the current
\* position in both coordinates.
C13_CurrentNotAppended ==
    \A c \in Unmoved :
        /\ Len(calls[c].history) = Len(calls[c].historyRecords)
        /\ Positions(calls[c].history) = Positions(calls[c].historyRecords)
        /\ Numeric(calls[c].current) => ~Beyond(calls[c])

\* the last element of the returned history is the current position
C13_Witness ==
    \E c \in Unmoved :
        IsCurrentPosition(calls[c].history[Len(calls[c].history)], calls[c].current)

\* the telemetry response of a call carries no row
ZeroRow(call) ==
    /\ call.fetched
    /\ call.fois.ok
    /\ (call.fois.RowCont = "0" \/ Len(call.fois.LocoDtls) = 0)

\* C14: a call whose telemetry response has row count "0" or no detail rows
\* returns 404 and attempts no store operation.
C14_ZeroRowsNotFound ==
    \A c \in Calls :
        (calls[c].pc = "done" /\ ZeroRow(calls[c]))
            => calls[c].status = 404 /\ calls[c].dbOps = {}

\* the calls that evaluated the movement test
Decided == {c \in Calls : /\ "find" \in calls[c].dbOps
                           /\ (calls[c].pc = "create" \/ calls[c].status = 200)}

\* C15: moved is true when the call read no stored record; otherwise it is
\* true exactly when the latitude or the longitude differs from the last
\* stored record's by more than the tolerance (strictly).
C15_MovementDetector ==
    \A c \in Decided :
        Numeric(calls[c].currentData) =>
            calls[c].hasMoved = (calls[c].historyRecords = <<>> \/ Beyond(calls[c]))

\* a latitude exactly the tolerance away from the last stored record's, which
\* is not the record stored first
C15_Witness ==
    \E c \in Decided :
        /\ Len(calls[c].historyRecords) >= 2
        /\ ~calls[c].hasMoved
        /\ \/ LastRecord(calls[c]).lat - calls[c].currentData.lat = COORDINATE_TOLERANCE
           \/ calls[c].currentData.lat - LastRecord(calls[c]).lat = COORDINATE_TOLERANCE
        /\ LastRecord(calls[c]).lng = calls[c].currentData.lng

\* C16: a request without an assetId is rejected with 400 before any fetch of
\* telemetry and before any store operation; it stores nothing.
C16_MissingIdRejected ==
    \A c \in Calls :
        (calls[c].pc # "idle" /\ calls[c].locoId = "") =>
            /\ calls[c].pc = "done"
            /\ calls[c].status = 400
            /\ ~calls[c].fetched
            /\ calls[c].dbOps = {}
            /\ ~calls[c].newRecordSaved

\* a rejected request while the store holds records
C16_Witness ==
    \E c \in Calls :
        /\ calls[c].pc = "done"
        /\ calls[c].locoId = ""
        /\ calls[c].status = 400
        /\ db # {}

\* every two adjacent records differ by more than the tolerance in latitude
\* or in longitude
AdjacentApart(recs) ==
    \A i \in 1..(Len(recs) - 1) :
        Apart(recs[i].lat, recs[i + 1].lat) \/ Apart(recs[i].lng, recs[i + 1].lng)

\* C17: every two adjacent records of a loco's stored history differ by more
\* than the tolerance in latitude or in longitude, whether the calls follow
\* one another or interleave.
C17_NoNearDuplicates == \A id \in LocoIds : AdjacentApart(Find(id))

\* the same, as long as no call began while another was in flight
SerialNoNearDuplicates == sofar.serial => \A id \in LocoIds : AdjacentApart(Find(id))

-----------------------------------------------------------------------------
(* Properties of the tracking session, checked under SpecSession *)

\* the poll in slot s completes in this step
Completes(s) == polls[s].active /\ ~polls'[s].active

\* a poll is issued into slot s in this step
Issued(s) == ~polls[s].active /\ polls'[s].active

\* C4: the completion of a poll that was in flight when the user stopped
\* changes neither the snapshot, nor the error message, nor the tracking status.
C4_StoppedPollNotApplied ==
    [][\A s \in PollSlots :
          (Completes(s) /\ polls[s].stale) =>
              /\ currentData' = currentData
              /\ historyData' = historyData
              /\ error' = error
              /\ isTracking' = isTracking]_vars

\* C5: at most one poll of the session is in flight.
C5_OneOutstandingPoll ==
    Cardinality({s \in PollSlots : polls[s].active /\ ~polls[s].stale}) <= 1

\* C8: every tick polls the assetId the session was started with.
C8_TickKeepsAssetId ==
    [][\A s \in PollSlots :
          (Issued(s) /\ polls'[s].isTracking) => polls'[s].id = startId]_vars

\* C10: once a poll has failed the session is halted: while the error stands
\* (no poll has been started since), tracking is off and no timer is alive.
C10_FailureHalts ==
    error # <<>> => (~isTracking /\ timers = {})

\* C11: once the user has stopped the session, the timer starts no poll until
\* the user starts again.
C11_NoTickAfterStop ==
    [][\A s \in PollSlots :
          (Issued(s) /\ polls'[s].isTracking) => lastUser # "stop"]_vars

\* C18: at most one polling timer is alive, and only while tracking; the handle
\* kept for cancellation is the live timer's.
C18_OneTimerOnlyWhileTracking ==
    /\ Cardinality(timers) <= 1
    /\ timers # {} => isTracking
    /\ \A t \in timers : t.handle = intervalRef

\* a timer re-created after an assetId change, with polls of the earlier
\* timer still in flight
C18_Witness ==
    /\ isTracking
    /\ \E t \in timers : t.id # startId
    /\ \E s \in PollSlots : polls[s].active

\* C19: while tracking, a snapshot is held.
C19_ActiveImpliesSnapshot == isTracking => currentData # <<>>

\* tracking with a snapshot while a poll that was in flight at an earlier stop
\* is still in flight
C19_Witness ==
    /\ isTracking
    /\ currentData # <<>>
    /\ \E s \in PollSlots : polls[s].active /\ polls[s].stale

====
